---------------------------- MODULE Spec2Model ----------------------------
(***************************************************************************)
(* Cribbage against the computer (src/pages/index.js): the scoring        *)
(* functions, the pegging helpers and the useCribbageGame hook, modelled  *)
(* as a state machine.                                                     *)
(*                                                                         *)
(* A card {r, s} is the integer 13 * suitIndex + (r - 1), its place in     *)
(* makeDeck(); two cards of one deck are the same object exactly when they *)
(* are the same integer.                                                   *)
(*                                                                         *)
(* React semantics assumed: one handler (event, effect or timer callback)  *)
(* is one atomic step; it reads the state its closure captured and its     *)
(* queued updates are applied in order when it returns; every updater      *)
(* function runs once (production build, no StrictMode double call).       *)
(***************************************************************************)
EXTENDS Integers, Sequences, FiniteSets, TLC

----------------------------------------------------------------------------
(* Utilities *)

Player == {"P", "AI"}

Min(a, b) == IF a < b THEN a ELSE b

Other(who) == IF who = "P" THEN "AI" ELSE "P"

Range(f) == {f[i] : i \in DOMAIN f}

RECURSIVE SumOver(_, _)
SumOver(S, f) ==
  IF S = {} THEN 0
  ELSE LET x == CHOOSE y \in S : TRUE IN f[x] + SumOver(S \ {x}, f)

RECURSIVE ProdOver(_, _)
ProdOver(S, f) ==
  IF S = {} THEN 1
  ELSE LET x == CHOOSE y \in S : TRUE IN f[x] * ProdOver(S \ {x}, f)

----------------------------------------------------------------------------
(* Cards and deck *)

NumSuits == 4
NumRanks == 13
WinScore == 120

rankOf(c) == (c % NumRanks) + 1
suitOf(c) == c \div NumRanks
Card(r, s) == NumRanks * s + (r - 1)

cardValue15(r) == IF r > 10 THEN 10 ELSE r

\* makeDeck(): suits in the outer loop, ranks in the inner one.
makeDeck == [i \in 1..(NumSuits * NumRanks) |-> i - 1]

cardsEqual(a, b) == rankOf(a) = rankOf(b) /\ suitOf(a) = suitOf(b)

\* minus(set, rem): the cards of set that equal no card of rem, in order.
minus(set, rem) ==
  SelectSeq(set, LAMBDA c : ~ \E i \in DOMAIN rem : cardsEqual(rem[i], c))

\* arr.filter(c => c !== card)
without(arr, card) == SelectSeq(arr, LAMBDA c : c # card)

----------------------------------------------------------------------------
(* Hand scoring *)

\* combos(arr): every non-empty subset, here as a set of index sets.
combos(arr) == (SUBSET DOMAIN arr) \ {{}}

\* Mutant of count15: only the fifteens made of two cards are counted.
count15_twoCards(cards) ==
  2 * Cardinality({S \in combos(cards) :
        /\ Cardinality(S) = 2
        /\ SumOver(S, [i \in DOMAIN cards |-> cardValue15(rankOf(cards[i]))]) = 15})

count15(cards) ==
  2 * Cardinality({S \in combos(cards) :
        SumOver(S, [i \in DOMAIN cards |-> cardValue15(rankOf(cards[i]))]) = 15})

\* byRank / ranks: how many cards of each rank.
rankCount(cards) ==
  [r \in 1..NumRanks |-> Cardinality({i \in DOMAIN cards : rankOf(cards[i]) = r})]

countPairs(cards) ==
  LET ranks == rankCount(cards)
  IN  SumOver({r \in 1..NumRanks : ranks[r] >= 2},
              [r \in 1..NumRanks |-> ((ranks[r] * (ranks[r] - 1)) \div 2) * 2])

\* The while loop of countRuns over the sorted distinct ranks: i is the first
\* rank not yet looked at, bestLen and total are the loop's variables.
RECURSIVE runsLoop(_, _, _, _)
runsLoop(byRank, i, bestLen, total) ==
  IF i > NumRanks THEN total
  ELSE IF byRank[i] = 0 THEN runsLoop(byRank, i + 1, bestLen, total)
  ELSE
    LET j == CHOOSE k \in i..NumRanks :
               /\ \A m \in i..k : byRank[m] > 0
               /\ (k = NumRanks \/ byRank[k + 1] = 0)
        runLen == j - i + 1
        mult == ProdOver(i..j, byRank)
    IN  IF runLen >= 3 /\ runLen > bestLen
          THEN runsLoop(byRank, j + 1, runLen, runLen * mult)
        ELSE IF runLen >= 3 /\ runLen = bestLen
          THEN runsLoop(byRank, j + 1, bestLen, total + runLen * mult)
        ELSE runsLoop(byRank, j + 1, bestLen, total)

\* Mutant of countRuns: a run is counted once, whatever the duplicates in it.
countRuns_once(cards) ==
  runsLoop([r \in 1..NumRanks |-> IF rankCount(cards)[r] > 0 THEN 1 ELSE 0], 1, 0, 0)

countRuns(cards) == runsLoop(rankCount(cards), 1, 0, 0)

\* Mutant of flushPoints: only the first two cards are compared.
flushPoints_firstTwo(hand, starter, isCrib) ==
  IF suitOf(hand[2]) # suitOf(hand[1]) THEN 0
  ELSE IF suitOf(starter) = suitOf(hand[1]) THEN 5
  ELSE IF isCrib THEN 0 ELSE 4

\* starter is always a card when a hand is scored (the cut precedes pegging).
flushPoints(hand, starter, isCrib) ==
  IF \E i \in DOMAIN hand : suitOf(hand[i]) # suitOf(hand[1]) THEN 0
  ELSE IF suitOf(starter) = suitOf(hand[1]) THEN 5
  ELSE IF isCrib THEN 0 ELSE 4

knobsPoints(hand, starter) ==
  IF \E i \in DOMAIN hand : rankOf(hand[i]) = 11 /\ suitOf(hand[i]) = suitOf(starter)
    THEN 1 ELSE 0

HOUSE_798 == TRUE

hull798Bonus(allFive) ==
  IF ~HOUSE_798 THEN 0
  ELSE LET cnt == rankCount(allFive) IN 3 * (cnt[7] * cnt[8] * cnt[9])

handPoints(hand4, starter, isCrib) ==
  LET all == hand4 \o <<starter>>
  IN  count15(all) + countPairs(all) + countRuns(all)
        + flushPoints(hand4, starter, isCrib) + knobsPoints(hand4, starter)
        + hull798Bonus(all)

----------------------------------------------------------------------------
(* Pegging logic *)

\* Mutant of legalPlays: the limit of 31 is not applied.
legalPlays_noLimit(hand, total) == hand

legalPlays(hand, total) ==
  SelectSeq(hand, LAMBDA c : total + cardValue15(rankOf(c)) <= 31)

\* The "pairs/trips/quads at end" loop of isPairRunPoints: same is the length
\* of the block of equal ranks that ends the sequence.
RECURSIVE sameAtEnd(_, _, _)
sameAtEnd(seq, k, same) ==
  IF k - 1 >= 1 /\ rankOf(seq[k - 1]) = rankOf(seq[k])
    THEN sameAtEnd(seq, k - 1, same + 1)
    ELSE same

\* Mutant of pairPoints: the shorter blocks are counted as well.
pairPoints_cumulative(seq) ==
  LET same == sameAtEnd(seq, Len(seq), 1)
  IN  IF same = 2 THEN 2 ELSE IF same = 3 THEN 2 + 6 ELSE IF same = 4 THEN 2 + 6 + 12 ELSE 0

pairPoints(seq) ==
  LET same == sameAtEnd(seq, Len(seq), 1)
  IN  IF same = 2 THEN 2 ELSE IF same = 3 THEN 6 ELSE IF same = 4 THEN 12 ELSE 0

\* The sorted ranks of the last l cards step by exactly one: they are l
\* different ranks and they fill the interval from the lowest to the highest.
tailIsRun(seq, l) ==
  LET ranks == {rankOf(seq[i]) : i \in (Len(seq) - l + 1)..Len(seq)}
  IN  /\ Cardinality(ranks) = l
      /\ \A r \in ranks : \A q \in ranks : r - q < l

\* The run loop: l from min(7, length) down to 3, the first l that is a run.
RECURSIVE runPoints(_, _)
runPoints(seq, l) ==
  IF l < 3 THEN 0
  ELSE IF tailIsRun(seq, l) THEN l
  ELSE runPoints(seq, l - 1)

isPairRunPoints(stack, nextCard) ==
  LET seq == stack \o <<nextCard>>
  IN  pairPoints(seq) + runPoints(seq, Min(7, Len(seq)))

\* Mutant of applyPlay: the turn stays with the player of the card.
applyPlay_keepTurn(state, card, who) ==
  LET newTotal == state.total + cardValue15(rankOf(card))
      points15or31 == (IF newTotal = 15 THEN 2 ELSE 0) + (IF newTotal = 31 THEN 2 ELSE 0)
      pairRun == isPairRunPoints(state.stack, card)
  IN  [state EXCEPT
         !.stack = state.stack \o <<card>>,
         !.total = newTotal,
         !.pHand = IF who = "P" THEN without(state.pHand, card) ELSE state.pHand,
         !.aiHand = IF who = "AI" THEN without(state.aiHand, card) ELSE state.aiHand,
         !.next = who,
         !.pPassed = FALSE,
         !.aiPassed = FALSE,
         !.points = points15or31 + pairRun,
         !.thirtyOne = (newTotal = 31)]

applyPlay(state, card, who) ==
  LET newTotal == state.total + cardValue15(rankOf(card))
      points15or31 == (IF newTotal = 15 THEN 2 ELSE 0) + (IF newTotal = 31 THEN 2 ELSE 0)
      pairRun == isPairRunPoints(state.stack, card)
  IN  [state EXCEPT
         !.stack = state.stack \o <<card>>,
         !.total = newTotal,
         !.pHand = IF who = "P" THEN without(state.pHand, card) ELSE state.pHand,
         !.aiHand = IF who = "AI" THEN without(state.aiHand, card) ELSE state.aiHand,
         !.next = IF who = "P" THEN "AI" ELSE "P",
         !.pPassed = FALSE,
         !.aiPassed = FALSE,
         !.points = points15or31 + pairRun,
         !.thirtyOne = (newTotal = 31)]

----------------------------------------------------------------------------
(* Bounds of the model *)

\* Shuffle outcomes considered (the decks of DeckN).
NumDecks == 3
\* Of the 15 discard pairs, in the order of chooseDiscardsAI's choices, how
\* many the AI's search may return and how many the player may select.
NumToss == 1
NumSel == 1
\* Rounds the player plays in one run; the round after them is still dealt
\* and the AI discards, but the player clicks nothing more.
MaxDeals == 1
\* The simulated values of a card lie in -MaxEv .. MaxEv.
MaxEv == 1
\* Stream states 0..MaxSeed and simulation counts 1..MaxSims for the runs of
\* chooseDiscardsAI that are compared.
MaxSeed == 7
MaxSims == 2
\* Pending timeouts beyond which the player does not click "Say Go" again.
MaxTimers == 2
\* Cards held by each side in the playouts that are examined one by one.
RolloutHand == 2

----------------------------------------------------------------------------
(* Game state: the useState cells of useCribbageGame *)

VARIABLES
  dealer,    \* "P" or "AI"
  deck,      \* sequence of cards; pop() takes the last
  pHand,     \* the player's hand (6, then 4 cards)
  aiHand,    \* the AI's hand (6, then 4 cards)
  crib,
  starter,   \* a card, or NoCard for null
  phase,     \* "deal", "discard", "cut", "pegging", "show"
  scores,    \* [P |-> n, AI |-> n]
  peg,       \* the pegging state, or Null
  aiBusy,
  gameOver,
  winner,    \* "P", "AI", or "none" for null
  timers,    \* pending setTimeout callbacks with what their closures captured
  deals,     \* how many times deal() has run
  ev,        \* the last handler that ran (history, not read by the program)
  hist       \* who played the last card and who said Go since (history)

vars == <<dealer, deck, pHand, aiHand, crib, starter, phase, scores, peg,
          aiBusy, gameOver, winner, timers, deals, ev, hist>>

NoCard == 0 - 1
Null == [null |-> TRUE]

\* shuffle(arr, rng): Fisher-Yates driven by rng can return any permutation;
\* the model considers the permutations DeckN(1) .. DeckN(NumDecks) of the
\* full deck.  A deck is given by the thirteen cards on top of it.
DeckOf(a6, p6, st) ==
  minus(makeDeck, a6 \o p6 \o <<st>>)
    \o <<st, p6[6], a6[6], p6[5], a6[5], p6[4], a6[4],
             p6[3], a6[3], p6[2], a6[2], p6[1], a6[1]>>

Rotate(seq, n) == [i \in 1..Len(seq) |-> seq[((i - 1 + n) % Len(seq)) + 1]]

DeckN(i) ==
  CASE i = 1 ->  \* fives on both sides, a Jack is cut
         DeckOf(<<Card(9, 2), Card(1, 2), Card(2, 2), Card(5, 2), Card(5, 3), Card(10, 2)>>,
                <<Card(8, 1), Card(1, 1), Card(3, 1), Card(5, 0), Card(5, 1), Card(10, 1)>>,
                Card(11, 0))
    [] i = 2 ->  \* tens and aces: 31 twice, the second time on the last card
         DeckOf(<<Card(9, 2), Card(1, 3), Card(6, 3), Card(13, 2), Card(12, 2), Card(1, 2)>>,
                <<Card(9, 1), Card(10, 1), Card(5, 1), Card(13, 0), Card(12, 0), Card(11, 1)>>,
                Card(3, 0))
    [] i = 3 ->  \* middle cards: runs and counts that stop short of 31
         DeckOf(<<Card(2, 2), Card(6, 2), Card(3, 3), Card(7, 2), Card(8, 2), Card(13, 3)>>,
                <<Card(2, 0), Card(4, 0), Card(12, 0), Card(7, 0), Card(8, 1), Card(9, 0)>>,
                Card(4, 3))
    [] i = 4 ->  \* low cards: a long run in one count
         DeckOf(<<Card(12, 2), Card(3, 2), Card(8, 2), Card(2, 2), Card(4, 2), Card(6, 2)>>,
                <<Card(13, 1), Card(3, 1), Card(9, 1), Card(1, 0), Card(5, 0), Card(7, 1)>>,
                Card(10, 3))
    [] OTHER -> Rotate(makeDeck, 7 * i)

shuffle == {DeckN(i) : i \in 1..NumDecks}

\* choices of chooseDiscardsAI: the pairs (i, j), i < j, in loop order.
choices ==
  <<<<1, 2>>, <<1, 3>>, <<1, 4>>, <<1, 5>>, <<1, 6>>, <<2, 3>>, <<2, 4>>, <<2, 5>>,
    <<2, 6>>, <<3, 4>>, <<3, 5>>, <<3, 6>>, <<4, 5>>, <<4, 6>>, <<5, 6>>>>

\* chooseDiscardsAI: the toss with the greatest simulated value; which one
\* that is depends on the random draws, so any of the pairs considered.
chooseDiscardsAI(aiHand6) ==
  {LET toss == <<aiHand6[choices[k][1]], aiHand6[choices[k][2]]>>
   IN  [keep |-> minus(aiHand6, toss), toCrib |-> toss] :
     k \in 1..Min(NumToss, Len(choices))}

\* What aiPeggingMove takes as seen: state.seen (crib and starter, set at the
\* cut) and the cards of the current stack.
seenNow(state) == state.seen \o state.stack

maskedUnseen(state) == minus(makeDeck, seenNow(state) \o state.aiHand)

\* The cards that oppSample = d.slice(0, oppCount) can hold, d being a
\* shuffle of maskedUnseen: any of them, when the opponent holds a card.
oppSampleCards(state) ==
  IF Len(state.pHand) = 0 THEN {} ELSE Range(maskedUnseen(state))

\* rollout(play): the average score of sims simulated continuations (sims is
\* at least 60 from the page's slider); which value it is depends on the
\* random draws, so any of a few values around 0.
rolloutValues == (0 - MaxEv)..MaxEv

\* bestEV before the first card is looked at.
NegInf == 0 - 1000000000

\* The loop of aiPeggingMove over the legal cards, evs[i] being rollout(legal[i]).
RECURSIVE bestLoop(_, _, _, _, _)
bestLoop(legal, evs, i, best, bestEV) ==
  IF i > Len(legal) THEN best
  ELSE IF evs[i] > bestEV THEN bestLoop(legal, evs, i + 1, legal[i], evs[i])
  ELSE bestLoop(legal, evs, i + 1, best, bestEV)

\* Mutant of pickBest: bestEV starts at 0.
pickBest_fromZero(legal, evs) == bestLoop(legal, evs, 1, NoCard, 0)

pickBest(legal, evs) == bestLoop(legal, evs, 1, NoCard, NegInf)

\* aiPeggingMove: null when nothing is legal, otherwise the first legal card
\* with the greatest simulated value, for every outcome of the draws.
aiPeggingMove(state) ==
  LET legal == legalPlays(state.aiHand, state.total)
  IN  IF Len(legal) = 0 THEN {NoCard}
      ELSE {pickBest(legal, evs) : evs \in [1..Len(legal) -> rolloutValues]}

\* The points of card c played onto stack at count total, as the playout
\* computes them: 2 for 15, 2 for 31, pairs and runs.
playPts(stack, total, c) ==
  LET t2 == total + cardValue15(rankOf(c))
  IN  (IF t2 = 15 THEN 2 ELSE 0) + (IF t2 = 31 THEN 2 ELSE 0) + isPairRunPoints(stack, c)

\* The simulated opponent's choice: the first legal card with the most
\* immediate points (best = null, bestPts = -1 before the loop).
RECURSIVE oppChoice(_, _, _, _, _, _)
oppChoice(pLegal, stack, total, i, best, bestPts) ==
  IF i > Len(pLegal) THEN [card |-> best, pts |-> bestPts]
  ELSE LET pts == playPts(stack, total, pLegal[i])
       IN  IF pts > bestPts
             THEN oppChoice(pLegal, stack, total, i + 1, pLegal[i], pts)
             ELSE oppChoice(pLegal, stack, total, i + 1, best, bestPts)

\* The AI's choice in a playout: most immediate points, then highest count.
RECURSIVE aiChoice(_, _, _, _, _, _, _)
aiChoice(aiLegal, stack, total, i, best, bestPts, bestTotal) ==
  IF i > Len(aiLegal) THEN [card |-> best, pts |-> bestPts]
  ELSE LET c == aiLegal[i]
           t2 == total + cardValue15(rankOf(c))
           pts == playPts(stack, total, c)
       IN  IF pts > bestPts \/ (pts = bestPts /\ t2 > bestTotal)
             THEN aiChoice(aiLegal, stack, total, i + 1, c, pts, t2)
             ELSE aiChoice(aiLegal, stack, total, i + 1, best, bestPts, bestTotal)

\* The while (true) loop of one playout.  st holds the loop's variables; besides
\* them, aiGain and pGain add up the card points of each side (history).  The
\* result is the loop's state at its break, aiPts being the playout's value.
RECURSIVE playoutLoop(_)
playoutLoop(st) ==
  IF st.turn = "P"
    THEN LET pLegal == legalPlays(st.pOptions, st.total)
         IN  IF Len(pLegal) = 0
               THEN IF st.aiPassed
                      THEN [st EXCEPT !.aiPts = IF st.lastMover = "AI" THEN @ + 1 ELSE @]
                      ELSE playoutLoop([st EXCEPT !.pPassed = TRUE, !.turn = "AI"])
               ELSE LET ch == oppChoice(pLegal, st.stack, st.total, 1, NoCard, 0 - 1)
                        s2 == [st EXCEPT !.pPassed = FALSE,
                                         !.total = @ + cardValue15(rankOf(ch.card)),
                                         !.aiPts = @ - ch.pts,
                                         !.pGain = @ + ch.pts,
                                         !.stack = @ \o <<ch.card>>,
                                         !.pOptions = without(@, ch.card),
                                         !.lastMover = "P"]
                    IN  IF s2.total = 31 THEN s2
                        ELSE playoutLoop([s2 EXCEPT !.turn = "AI"])
    ELSE LET aiLegal == legalPlays(st.aiRem, st.total)
         IN  IF Len(aiLegal) = 0
               THEN IF st.pPassed
                      THEN [st EXCEPT !.aiPts = IF st.lastMover = "AI" THEN @ + 1 ELSE @]
                      ELSE playoutLoop([st EXCEPT !.aiPassed = TRUE, !.turn = "P"])
               ELSE LET ch == aiChoice(aiLegal, st.stack, st.total, 1, NoCard, 0 - 1, 0)
                        s2 == [st EXCEPT !.aiPassed = FALSE,
                                         !.total = @ + cardValue15(rankOf(ch.card)),
                                         !.aiPts = @ + ch.pts,
                                         !.aiGain = @ + ch.pts,
                                         !.stack = @ \o <<ch.card>>,
                                         !.aiRem = without(@, ch.card),
                                         !.lastMover = "AI"]
                    IN  IF s2.total = 31 THEN s2
                        ELSE playoutLoop([s2 EXCEPT !.turn = "P"])

\* One iteration of the sims loop of rollout(play) with oppSample drawn: the
\* state of the playout when it ends; its aiPts is what totalScore receives.
playout(state, play, oppSample) ==
  LET first == playPts(state.stack, state.total, play)
      st == [turn |-> "P",
             total |-> state.total + cardValue15(rankOf(play)),
             stack |-> state.stack \o <<play>>,
             aiRem |-> without(state.aiHand, play),
             pOptions |-> oppSample,
             aiPts |-> first,
             pPassed |-> FALSE, aiPassed |-> FALSE,
             lastMover |-> "AI",
             aiGain |-> first, pGain |-> 0]
  IN  IF st.total = 31 THEN [st EXCEPT !.aiPts = @ + 1]
      ELSE playoutLoop(st)

\* Scores of the games already played that a round may start from.
StartScores == {[P |-> 0, AI |-> 0], [P |-> 116, AI |-> 117]}

----------------------------------------------------------------------------
(* Scoring state: scores, gameOver, winner as one record *)

Sc == [scores |-> scores, gameOver |-> gameOver, winner |-> winner]

\* Mutant of addScore: the sum is not clamped.
addScore_noClamp(sc, who, delta, go) ==
  IF delta <= 0 \/ go THEN sc
  ELSE LET nextVal == sc.scores[who] + delta
       IN  [scores |-> [sc.scores EXCEPT ![who] = nextVal],
            gameOver |-> (sc.gameOver \/ (~go /\ nextVal >= WinScore)),
            winner |-> IF ~go /\ nextVal >= WinScore THEN who ELSE sc.winner]

\* addScore(who, delta) run by a handler whose closure holds gameOver = go,
\* applied to the queued score state sc.
addScore(sc, who, delta, go) ==
  IF delta <= 0 \/ go THEN sc
  ELSE LET nextVal == Min(WinScore, sc.scores[who] + delta)
       IN  [scores |-> [sc.scores EXCEPT ![who] = nextVal],
            gameOver |-> (sc.gameOver \/ (~go /\ nextVal >= WinScore)),
            winner |-> IF ~go /\ nextVal >= WinScore THEN who ELSE sc.winner]

\* What the functions of one render close over.
Closure ==
  [dealer |-> dealer, pHand |-> pHand, aiHand |-> aiHand, crib |-> crib,
   starter |-> starter, gameOver |-> gameOver]

Timer(kind, ms, cl, ns) == [kind |-> kind, ms |-> ms, cl |-> cl, ns |-> ns]

\* The score updates of endPeggingAndScoreHands(finalPeg), in order.
endPeggingAndScoreHands(finalPeg, cl, sc) ==
  LET s0 == IF finalPeg.total > 0 /\ finalPeg.total < 31
               /\ (finalPeg.pPassed \/ finalPeg.aiPassed)
              THEN addScore(sc, IF finalPeg.pPassed THEN "AI" ELSE "P", 1, cl.gameOver)
              ELSE sc
      pone == IF cl.dealer = "AI" THEN "P" ELSE "AI"
      poneHand == IF pone = "P" THEN cl.pHand ELSE cl.aiHand
      dealerHand == IF cl.dealer = "P" THEN cl.pHand ELSE cl.aiHand
      ponePts == handPoints(poneHand, cl.starter, FALSE)
      dealerPts == handPoints(dealerHand, cl.starter, FALSE)
      cribPts == handPoints(cl.crib, cl.starter, TRUE)
      s1 == addScore(s0, pone, ponePts, cl.gameOver)
      s2 == addScore(s1, cl.dealer, dealerPts, cl.gameOver)
  IN  addScore(s2, cl.dealer, cribPts, cl.gameOver)

\* Mutant of ResetStack: the pass flags stay as they are.
ResetStack_keepFlags(ps) == [ps EXCEPT !.stack = <<>>, !.total = 0]

ResetStack(ps) ==
  [ps EXCEPT !.stack = <<>>, !.total = 0, !.pPassed = FALSE, !.aiPassed = FALSE]

\* Mutant of playPegCard: the card that makes 31 also takes a last-card point.
playPegCard_plusOne(card, cl) ==
  IF cl.gameOver \/ peg = Null
    THEN [peg |-> peg, sc |-> Sc, phase |-> phase, sched |-> <<>>]
  ELSE
    LET who == peg.next
        s1 == applyPlay(peg, card, who)
        sc1 == addScore(Sc, who, s1.points + (IF s1.thirtyOne THEN 1 ELSE 0), cl.gameOver)
    IN  IF s1.thirtyOne
          THEN [peg |-> ResetStack(s1), sc |-> sc1, phase |-> phase, sched |-> <<>>]
        ELSE IF Len(s1.pHand) = 0 /\ Len(s1.aiHand) = 0
          THEN [peg |-> s1, sc |-> endPeggingAndScoreHands(s1, cl, sc1),
                phase |-> "show", sched |-> <<Timer("nextDeal", 2000, cl, Null)>>]
        ELSE [peg |-> s1, sc |-> sc1, phase |-> phase, sched |-> <<>>]

\* playPegCard(card): the new peg, score state and phase, and the timeouts
\* it schedules.
playPegCard(card, cl) ==
  IF cl.gameOver \/ peg = Null
    THEN [peg |-> peg, sc |-> Sc, phase |-> phase, sched |-> <<>>]
  ELSE
    LET who == peg.next
        s1 == applyPlay(peg, card, who)
        sc1 == addScore(Sc, who, s1.points, cl.gameOver)
    IN  IF s1.thirtyOne
          THEN [peg |-> ResetStack(s1), sc |-> sc1, phase |-> phase, sched |-> <<>>]
        ELSE IF Len(s1.pHand) = 0 /\ Len(s1.aiHand) = 0
          THEN [peg |-> s1, sc |-> endPeggingAndScoreHands(s1, cl, sc1),
                phase |-> "show", sched |-> <<Timer("nextDeal", 2000, cl, Null)>>]
        ELSE [peg |-> s1, sc |-> sc1, phase |-> phase, sched |-> <<>>]

\* Mutant of declareGo: the legal plays of the declarer are not looked at.
declareGo_noLegalCheck(who, cl) ==
  IF cl.gameOver \/ peg = Null THEN [peg |-> peg, sched |-> <<>>]
  ELSE [peg |-> IF who = "P"
                  THEN [peg EXCEPT !.pPassed = TRUE, !.next = Other(who)]
                  ELSE [peg EXCEPT !.aiPassed = TRUE, !.next = Other(who)],
        sched |-> <<Timer("goCheck", 250, cl, Null)>>]

\* declareGo(who): the new peg and the delayed check it schedules.
declareGo(who, cl) ==
  IF cl.gameOver \/ peg = Null THEN [peg |-> peg, sched |-> <<>>]
  ELSE IF who = "P" /\ Len(legalPlays(peg.pHand, peg.total)) > 0
    THEN [peg |-> peg, sched |-> <<>>]
  ELSE IF who = "AI" /\ Len(legalPlays(peg.aiHand, peg.total)) > 0
    THEN [peg |-> peg, sched |-> <<>>]
  ELSE [peg |-> IF who = "P"
                  THEN [peg EXCEPT !.pPassed = TRUE, !.next = Other(who)]
                  ELSE [peg EXCEPT !.aiPassed = TRUE, !.next = Other(who)],
        sched |-> <<Timer("goCheck", 250, cl, Null)>>]

----------------------------------------------------------------------------
(* History *)

Ev(op, who, card, pts) ==
  [op |-> op, who |-> who, card |-> card, pts |-> pts, mover |-> hist.last]

NoHist == [last |-> "-", gos |-> <<>>]

\* The history after a handler that turned peg into newPeg for who.
HistAfter(newPeg, who, played) ==
  IF newPeg = peg THEN hist
  ELSE IF played THEN [last |-> who, gos |-> <<>>]
  ELSE [hist EXCEPT !.gos = hist.gos \o <<who>>]

----------------------------------------------------------------------------
(* Initial state: the start of a round of a game in progress *)

Init ==
  /\ dealer \in Player
  /\ deck \in shuffle
  /\ pHand = <<>>
  /\ aiHand = <<>>
  /\ crib = <<>>
  /\ starter = NoCard
  /\ phase = "deal"
  /\ scores \in StartScores
  /\ peg = Null
  /\ aiBusy = FALSE
  /\ gameOver = FALSE
  /\ winner = "none"
  /\ timers = <<>>
  /\ deals = 0
  /\ ev = [op |-> "init", who |-> "-", card |-> NoCard, pts |-> 0, mover |-> "-"]
  /\ hist = NoHist

----------------------------------------------------------------------------
(* Effects: they run right after the render that enables them, before the *)
(* next event or timeout is handled.                                       *)

DealPending == phase = "deal"
AiDiscardPending == phase = "discard" /\ Len(aiHand) = 6
AiTurnPending ==
  phase = "pegging" /\ peg # Null /\ peg.next = "AI" /\ ~aiBusy /\ ~gameOver
EffectPending == DealPending \/ AiDiscardPending \/ AiTurnPending

\* The player's clicks come after the effects and the zero-delay timeouts of
\* the render before them.
UserReady == ~EffectPending /\ ~ \E i \in DOMAIN timers : timers[i].ms = 0

\* deal(): six cards each, popped alternately from the end of the deck.
Deal ==
  /\ DealPending
  /\ deals <= MaxDeals
  /\ LET n == Len(deck)
     IN  /\ aiHand' = [i \in 1..6 |-> deck[n - 2 * (i - 1)]]
         /\ pHand' = [i \in 1..6 |-> deck[n - 2 * (i - 1) - 1]]
         /\ deck' = SubSeq(deck, 1, n - 12)
  /\ crib' = <<>>
  /\ phase' = "discard"
  /\ deals' = deals + 1
  /\ ev' = Ev("deal", "-", NoCard, 0)
  /\ UNCHANGED <<dealer, starter, scores, peg, aiBusy, gameOver, winner, timers, hist>>

AiChooseDiscards ==
  /\ AiDiscardPending
  /\ \E r \in chooseDiscardsAI(aiHand) :
       /\ aiHand' = r.keep
       /\ crib' = crib \o r.toCrib
  /\ ev' = Ev("aiDiscard", "AI", NoCard, 0)
  /\ UNCHANGED <<dealer, deck, pHand, starter, phase, scores, peg, aiBusy,
                 gameOver, winner, timers, deals, hist>>

\* aiTakePegTurn(): Go when nothing is legal, otherwise the card of
\* aiPeggingMove; aiBusy is held until a zero-delay timeout clears it.
AiTakePegTurn ==
  /\ AiTurnPending
  /\ \E card \in aiPeggingMove(peg) :
       IF card = NoCard
         THEN LET r == declareGo("AI", Closure)
              IN  /\ peg' = r.peg
                  /\ timers' = timers \o r.sched
                  /\ aiBusy' = FALSE
                  /\ hist' = HistAfter(r.peg, "AI", FALSE)
                  /\ ev' = Ev("go", "AI", NoCard, 0)
                  /\ UNCHANGED <<phase, scores, gameOver, winner>>
         ELSE LET r == playPegCard(card, Closure)
              IN  /\ peg' = r.peg
                  /\ scores' = r.sc.scores
                  /\ gameOver' = r.sc.gameOver
                  /\ winner' = r.sc.winner
                  /\ phase' = r.phase
                  /\ timers' = timers \o r.sched \o <<Timer("aiBusy", 0, Closure, Null)>>
                  /\ aiBusy' = TRUE
                  /\ hist' = HistAfter(r.peg, "AI", TRUE)
                  /\ ev' = Ev("play", "AI", card, r.peg.points)
  /\ UNCHANGED <<dealer, deck, pHand, aiHand, crib, starter, deals>>

----------------------------------------------------------------------------
(* The player's buttons *)

\* Mutant of commitDiscardsSelected: the two cards stay in the hand as well.
commitDiscardsSelected_keepHand(selectedTwo) ==
  IF Len(selectedTwo) # 2
    THEN [crib |-> crib, pHand |-> pHand, phase |-> phase]
    ELSE [crib |-> crib \o selectedTwo, pHand |-> pHand, phase |-> "cut"]

\* commitDiscardsSelected(selectedTwo): the new crib, player hand and phase.
commitDiscardsSelected(selectedTwo) ==
  IF Len(selectedTwo) # 2
    THEN [crib |-> crib, pHand |-> pHand, phase |-> phase]
    ELSE [crib |-> crib \o selectedTwo, pHand |-> minus(pHand, selectedTwo), phase |-> "cut"]

\* "Put 2 in Crib": two cards of the hand, in hand order.
CommitDiscardsSelected ==
  /\ phase = "discard"
  /\ UserReady
  /\ deals <= MaxDeals
  /\ \E k \in 1..Min(NumSel, Len(choices)) :
       LET r == commitDiscardsSelected(<<pHand[choices[k][1]], pHand[choices[k][2]]>>)
       IN  /\ crib' = r.crib
           /\ pHand' = r.pHand
           /\ phase' = r.phase
  /\ ev' = Ev("commit", "P", NoCard, 0)
  /\ UNCHANGED <<dealer, deck, aiHand, starter, scores, peg, aiBusy, gameOver,
                 winner, timers, deals, hist>>

\* "Cut Starter"
CutStarter ==
  /\ phase = "cut"
  /\ UserReady
  /\ LET cut == deck[Len(deck)]
         sc == IF rankOf(cut) = 11 THEN addScore(Sc, dealer, 2, gameOver) ELSE Sc
     IN  /\ starter' = cut
         /\ deck' = SubSeq(deck, 1, Len(deck) - 1)
         /\ scores' = sc.scores
         /\ gameOver' = sc.gameOver
         /\ winner' = sc.winner
         /\ peg' = [stack |-> <<>>, total |-> 0, pHand |-> pHand, aiHand |-> aiHand,
                    seen |-> crib \o <<cut>>, starter |-> cut,
                    next |-> IF dealer = "AI" THEN "P" ELSE "AI",
                    pPassed |-> FALSE, aiPassed |-> FALSE,
                    points |-> 0, thirtyOne |-> FALSE]
         /\ ev' = Ev("cut", dealer, cut, IF rankOf(cut) = 11 THEN 2 ELSE 0)
  /\ phase' = "pegging"
  /\ hist' = NoHist
  /\ UNCHANGED <<dealer, pHand, aiHand, crib, aiBusy, timers, deals>>

\* The "Play <card>" buttons: one for each legal card of the player's hand,
\* shown during pegging whoever is next, disabled once the game is over.
PlayCardButton ==
  /\ phase = "pegging" /\ peg # Null /\ ~gameOver
  /\ UserReady
  /\ \E card \in Range(legalPlays(peg.pHand, peg.total)) :
       LET r == playPegCard(card, Closure)
       IN  /\ peg' = r.peg
           /\ scores' = r.sc.scores
           /\ gameOver' = r.sc.gameOver
           /\ winner' = r.sc.winner
           /\ phase' = r.phase
           /\ timers' = timers \o r.sched
           /\ hist' = HistAfter(r.peg, peg.next, TRUE)
           /\ ev' = Ev("play", peg.next, card, r.peg.points)
  /\ UNCHANGED <<dealer, deck, pHand, aiHand, crib, starter, aiBusy, deals>>

\* The "Say Go" button: shown when the player has no legal card.
SayGoButton ==
  /\ phase = "pegging" /\ peg # Null /\ ~gameOver
  /\ UserReady
  /\ Len(legalPlays(peg.pHand, peg.total)) = 0
  /\ Len(timers) < MaxTimers
  /\ LET r == declareGo("P", Closure)
     IN  /\ peg' = r.peg
         /\ timers' = timers \o r.sched
         /\ hist' = HistAfter(r.peg, "P", FALSE)
  /\ ev' = Ev("go", "P", NoCard, 0)
  /\ UNCHANGED <<dealer, deck, pHand, aiHand, crib, starter, phase, scores,
                 aiBusy, gameOver, winner, deals>>

----------------------------------------------------------------------------
(* Timeouts *)

\* Timeout i may fire when no timeout scheduled before it is due sooner.
Due(i) ==
  /\ i \in DOMAIN timers
  /\ \A j \in 1..(i - 1) : timers[j].ms > timers[i].ms

Drop(i) == SubSeq(timers, 1, i - 1) \o SubSeq(timers, i + 1, Len(timers))

\* The delayed check of declareGo: when both have passed, one point for the
\* player who is not next, and the count starts again.
GoCheck ==
  /\ ~EffectPending
  /\ \E i \in DOMAIN timers :
       /\ Due(i)
       /\ timers[i].kind = "goCheck"
       /\ IF peg # Null /\ peg.pPassed /\ peg.aiPassed
            THEN LET last == IF peg.next = "P" THEN "AI" ELSE "P"
                     sc == addScore(Sc, last, 1, timers[i].cl.gameOver)
                     ns == ResetStack(peg)
                 IN  /\ peg' = ns
                     /\ scores' = sc.scores
                     /\ gameOver' = sc.gameOver
                     /\ winner' = sc.winner
                     /\ timers' = Drop(i) \o
                          (IF Len(ns.pHand) = 0 /\ Len(ns.aiHand) = 0
                             THEN <<Timer("endPeg", 0, timers[i].cl, ns)>>
                             ELSE <<>>)
                     /\ ev' = Ev("goAward", last, NoCard, 1)
                     /\ hist' = NoHist
            ELSE /\ timers' = Drop(i)
                 /\ ev' = Ev("goCheck", "-", NoCard, 0)
                 /\ UNCHANGED <<peg, scores, gameOver, winner, hist>>
  /\ UNCHANGED <<dealer, deck, pHand, aiHand, crib, starter, phase, aiBusy, deals>>

\* endPeggingAndScoreHands(ns) after a Go that left both hands empty.
EndPegTimeout ==
  /\ ~EffectPending
  /\ \E i \in DOMAIN timers :
       /\ Due(i)
       /\ timers[i].kind = "endPeg"
       /\ LET sc == endPeggingAndScoreHands(timers[i].ns, timers[i].cl, Sc)
          IN  /\ scores' = sc.scores
              /\ gameOver' = sc.gameOver
              /\ winner' = sc.winner
       /\ timers' = Drop(i) \o <<Timer("nextDeal", 2000, timers[i].cl, Null)>>
  /\ phase' = "show"
  /\ ev' = Ev("endPeg", "-", NoCard, 0)
  /\ UNCHANGED <<dealer, deck, pHand, aiHand, crib, starter, peg, aiBusy, deals, hist>>

\* The next deal, two seconds after the show: the dealer changes and
\* redeal() shuffles a new deck, unless the closure's gameOver is set.
NextDealTimeout ==
  /\ ~EffectPending
  /\ \E i \in DOMAIN timers :
       /\ Due(i)
       /\ timers[i].kind = "nextDeal"
       /\ timers' = Drop(i)
       /\ IF ~timers[i].cl.gameOver
            THEN /\ dealer' = (IF dealer = "AI" THEN "P" ELSE "AI")
                 /\ deck' \in shuffle
                 /\ pHand' = <<>>
                 /\ aiHand' = <<>>
                 /\ crib' = <<>>
                 /\ starter' = NoCard
                 /\ phase' = "deal"
            ELSE UNCHANGED <<dealer, deck, pHand, aiHand, crib, starter, phase>>
  /\ ev' = Ev("nextDeal", "-", NoCard, 0)
  /\ UNCHANGED <<scores, peg, aiBusy, gameOver, winner, deals, hist>>

AiBusyTimeout ==
  /\ ~EffectPending
  /\ \E i \in DOMAIN timers :
       /\ Due(i)
       /\ timers[i].kind = "aiBusy"
       /\ timers' = Drop(i)
  /\ aiBusy' = FALSE
  /\ ev' = Ev("aiIdle", "-", NoCard, 0)
  /\ UNCHANGED <<dealer, deck, pHand, aiHand, crib, starter, phase, scores, peg,
                 gameOver, winner, deals, hist>>

----------------------------------------------------------------------------

Next ==
  \/ Deal
  \/ AiChooseDiscards
  \/ AiTakePegTurn
  \/ CommitDiscardsSelected
  \/ CutStarter
  \/ PlayCardButton
  \/ SayGoButton
  \/ GoCheck
  \/ EndPegTimeout
  \/ NextDealTimeout
  \/ AiBusyTimeout

Spec == Init /\ [][Next]_vars

\* The "New Deal" button: redeal() at any time, whatever the phase.
RedealButton ==
  /\ UserReady
  /\ deals <= MaxDeals
  /\ deck' \in shuffle
  /\ pHand' = <<>>
  /\ aiHand' = <<>>
  /\ crib' = <<>>
  /\ starter' = NoCard
  /\ phase' = "deal"
  /\ ev' = Ev("redeal", "P", NoCard, 0)
  /\ UNCHANGED <<dealer, scores, peg, aiBusy, gameOver, winner, timers, deals, hist>>

NextRedeal == Next \/ RedealButton

\* The game when the player may also press "New Deal".
SpecRedeal == Init /\ [][NextRedeal]_vars

\* The game with its scheduling: an effect runs after the render that enables
\* it, a scheduled timeout fires, and the player, when a button is offered,
\* eventually clicks one.
Fairness ==
  /\ WF_vars(Deal) /\ WF_vars(AiChooseDiscards) /\ WF_vars(AiTakePegTurn)
  /\ WF_vars(GoCheck) /\ WF_vars(EndPegTimeout) /\ WF_vars(NextDealTimeout)
  /\ WF_vars(AiBusyTimeout)
  /\ WF_vars(CommitDiscardsSelected) /\ WF_vars(CutStarter)
  /\ WF_vars(PlayCardButton \/ SayGoButton)

SpecLive == Init /\ [][Next]_vars /\ Fairness

----------------------------------------------------------------------------
(* Direct calls of the hook's exported functions.  The page only calls      *)
(* playPegCard and declareGo from the buttons above; here a caller invokes  *)
(* them once with other arguments, in a state the game has reached, and the *)
(* run ends with that call.                                                 *)

ApiOps == {"apiPlay", "apiGo", "apiCommit"}

\* The cards of both four-card hands.
CardsInPlay == Range(pHand) \cup Range(aiHand)

\* card is not in the hand of the player who is next, or takes the count past 31.
IllegalCard(card) ==
  \/ card \notin Range(IF peg.next = "P" THEN peg.pHand ELSE peg.aiHand)
  \/ peg.total + cardValue15(rankOf(card)) > 31

ApiPlayPegCard ==
  /\ phase = "pegging" /\ peg # Null /\ ~gameOver
  /\ UserReady
  /\ ev.op \notin ApiOps
  /\ \E card \in CardsInPlay :
       /\ IllegalCard(card)
       /\ LET r == playPegCard(card, Closure)
          IN  /\ peg' = r.peg
              /\ scores' = r.sc.scores
              /\ gameOver' = r.sc.gameOver
              /\ winner' = r.sc.winner
              /\ phase' = r.phase
              /\ timers' = timers \o r.sched
              /\ hist' = HistAfter(r.peg, peg.next, TRUE)
              /\ ev' = Ev("apiPlay", peg.next, card, r.peg.points)
  /\ UNCHANGED <<dealer, deck, pHand, aiHand, crib, starter, aiBusy, deals>>

ApiDeclareGo ==
  /\ phase = "pegging" /\ peg # Null /\ ~gameOver
  /\ UserReady
  /\ ev.op \notin ApiOps
  /\ \E who \in Player :
       LET r == declareGo(who, Closure)
       IN  /\ peg' = r.peg
           /\ timers' = timers \o r.sched
           /\ hist' = HistAfter(r.peg, who, FALSE)
           /\ ev' = Ev("apiGo", who, NoCard, 0)
  /\ UNCHANGED <<dealer, deck, pHand, aiHand, crib, starter, phase, scores,
                 aiBusy, gameOver, winner, deals>>

\* Selections that are not two cards of the player's hand: no card, one card,
\* three cards, and two cards of which one or both are held elsewhere.
MalformedSel ==
  {<<>>, <<pHand[1]>>, <<pHand[1], pHand[2], pHand[3]>>,
   <<pHand[1], aiHand[1]>>, <<deck[1], deck[2]>>}

ApiCommitDiscards ==
  /\ phase = "discard" /\ Len(pHand) = 6
  /\ UserReady
  /\ ev.op \notin ApiOps
  /\ \E sel \in MalformedSel :
       LET r == commitDiscardsSelected(sel)
       IN  /\ crib' = r.crib
           /\ pHand' = r.pHand
           /\ phase' = r.phase
           /\ ev' = Ev("apiCommit", "P", NoCard, 0)
  /\ UNCHANGED <<dealer, deck, aiHand, starter, scores, peg, aiBusy, gameOver,
                 winner, timers, deals, hist>>

InitApi == Init /\ deck = DeckN(2) /\ scores = [P |-> 0, AI |-> 0]

NextApi ==
  \/ (ev.op \notin ApiOps /\ Next)
  \/ ApiPlayPegCard
  \/ ApiDeclareGo
  \/ ApiCommitDiscards

SpecApi == InitApi /\ [][NextApi]_vars

----------------------------------------------------------------------------
(* applyPlay as a function: every count that legal plays from a pool of    *)
(* cards can build, whoever holds them.                                    *)

Pool ==
  <<Card(5, 0), Card(5, 1), Card(5, 2), Card(5, 3),
    Card(7, 0), Card(7, 1), Card(7, 2), Card(7, 3), Card(6, 1)>>

InitApply ==
  /\ dealer = "AI"
  /\ deck = <<>>
  /\ pHand = Pool
  /\ aiHand = <<>>
  /\ crib = <<>>
  /\ starter = Card(13, 0)
  /\ phase = "pegging"
  /\ scores = [P |-> 0, AI |-> 0]
  /\ peg = [stack |-> <<>>, total |-> 0, pHand |-> Pool, aiHand |-> <<>>,
            seen |-> <<Card(13, 0)>>, starter |-> Card(13, 0), next |-> "P",
            pPassed |-> FALSE, aiPassed |-> FALSE, points |-> 0, thirtyOne |-> FALSE]
  /\ aiBusy = FALSE
  /\ gameOver = FALSE
  /\ winner = "none"
  /\ timers = <<>>
  /\ deals = 0
  /\ ev = [op |-> "init", who |-> "-", card |-> NoCard, pts |-> 0, mover |-> "-"]
  /\ hist = NoHist

ApplyPlayStep ==
  /\ \E card \in Range(legalPlays(peg.pHand, peg.total)) :
       /\ peg' = applyPlay(peg, card, "P")
       /\ ev' = Ev("play", "P", card, peg'.points)
  /\ UNCHANGED <<dealer, deck, pHand, aiHand, crib, starter, phase, scores,
                 aiBusy, gameOver, winner, timers, deals, hist>>

SpecApply == InitApply /\ [][ApplyPlayStep]_vars

----------------------------------------------------------------------------
(* handPoints as a function: every four-card hand and starter from a pool   *)
(* of cards, as a hand (in pHand) or as a crib (in crib), in every order.   *)

HandPool ==
  {Card(5, 0), Card(5, 1), Card(5, 2), Card(10, 3), Card(11, 0),
   Card(3, 0), Card(4, 0), Card(6, 0), Card(7, 1), Card(8, 1), Card(9, 1)}

RECURSIVE Sorted(_)
Sorted(S) ==
  IF S = {} THEN <<>>
  ELSE LET m == CHOOSE x \in S : \A y \in S : x <= y
       IN  <<m>> \o Sorted(S \ {m})

\* arr with the cards at positions k and k + 1 exchanged.
Swap(arr, k) ==
  [i \in DOMAIN arr |-> IF i = k THEN arr[k + 1] ELSE IF i = k + 1 THEN arr[k] ELSE arr[i]]

InitHand ==
  /\ dealer = "AI"
  /\ deck = <<>>
  /\ aiHand = <<>>
  /\ \E S \in SUBSET HandPool :
       /\ Cardinality(S) = 4
       /\ starter \in HandPool \ S
       /\ \/ pHand = Sorted(S) /\ crib = <<>>
          \/ pHand = <<>> /\ crib = Sorted(S)
  /\ phase = "show"
  /\ scores = [P |-> 0, AI |-> 0]
  /\ peg = Null
  /\ aiBusy = FALSE
  /\ gameOver = FALSE
  /\ winner = "none"
  /\ timers = <<>>
  /\ deals = 0
  /\ hist = NoHist
  /\ ev = [op |-> "score", who |-> "-", card |-> NoCard,
           pts |-> IF crib = <<>> THEN handPoints(pHand, starter, FALSE)
                                  ELSE handPoints(crib, starter, TRUE),
           mover |-> "-"]

\* The same cards in another order, scored again.
ScoreHandStep ==
  /\ \E k \in 1..3 :
       IF crib = <<>>
         THEN /\ pHand' = Swap(pHand, k)
              /\ crib' = crib
              /\ ev' = Ev("score", "-", NoCard, handPoints(pHand', starter, FALSE))
         ELSE /\ crib' = Swap(crib, k)
              /\ pHand' = pHand
              /\ ev' = Ev("score", "-", NoCard, handPoints(crib', starter, TRUE))
  /\ UNCHANGED <<dealer, deck, aiHand, starter, phase, scores, peg, aiBusy,
                 gameOver, winner, timers, deals, hist>>

SpecHand == InitHand /\ [][ScoreHandStep]_vars

----------------------------------------------------------------------------
(* chooseDiscardsAI with its random stream.  The stream of seededRng is a   *)
(* state that every draw advances (seed += 0x6D2B79F5 in the code, one unit *)
(* here) and an output computed from the new state alone (the Mulberry32    *)
(* mixing in the code, a fixed polynomial mix here), scaled to 0..RngRange-1 *)
(* in place of [0, 1).                                                      *)

RngRange == 1009

rngDraw(seed) ==
  LET t == seed + 1
  IN  [value |-> (37 * t * t + 11 * t + 5) % RngRange, seed |-> t]

\* The loop of shuffle for i = n-1 down to 1 (positions from 1 here):
\* j = floor(rng() * (i + 1)), then a[i] and a[j] are exchanged.
RECURSIVE fisherYates(_, _, _)
fisherYates(a, i, seed) ==
  IF i < 2 THEN [a |-> a, seed |-> seed]
  ELSE LET r == rngDraw(seed)
           j == ((r.value * i) \div RngRange) + 1
           b == [a EXCEPT ![i] = a[j], ![j] = a[i]]
       IN  fisherYates(b, i - 1, r.seed)

shuffleRng(arr, seed) == fisherYates(arr, Len(arr), seed)

\* The sims loop for one toss: ten times the sum of the simulated values
\* (the crib counts -0.9 for the non-dealer), and the stream after it.
RECURSIVE simLoop(_, _, _, _, _, _, _)
simLoop(keep, toss, rest, isDealer, s, sum, seed) ==
  IF s = 0 THEN [sum |-> sum, seed |-> seed]
  ELSE LET sh == shuffleRng(rest, seed)
           d == sh.a
           handPts == handPoints(keep, d[1], FALSE)
           oppTwo == <<d[2], d[3]>>
           cribCards == IF isDealer THEN toss \o oppTwo ELSE oppTwo \o toss
           cribPts == handPoints(SubSeq(cribCards, 1, 4), d[1], TRUE)
       IN  simLoop(keep, toss, rest, isDealer, s - 1,
                   sum + 10 * handPts + (IF isDealer THEN 10 * cribPts ELSE 0 - 9 * cribPts),
                   sh.seed)

\* The loop over choices; sums of the same number of simulations are
\* compared in place of the averages, the first bestScore being -1e9.
RECURSIVE tossLoop(_, _, _, _, _, _, _, _)
tossLoop(all6, rest, isDealer, sims, k, best, bestScore, seed) ==
  IF k > Len(choices) THEN [keep |-> best.keep, toCrib |-> best.toCrib, seed |-> seed]
  ELSE LET toss == <<all6[choices[k][1]], all6[choices[k][2]]>>
           keep == minus(all6, toss)
           r == simLoop(keep, toss, rest, isDealer, sims, 0, seed)
       IN  IF r.sum > bestScore
             THEN tossLoop(all6, rest, isDealer, sims, k + 1,
                           [keep |-> keep, toCrib |-> toss], r.sum, r.seed)
             ELSE tossLoop(all6, rest, isDealer, sims, k + 1, best, bestScore, r.seed)

\* Mutant of chooseDiscardsSeeded: the draws come from a stream shared by all
\* calls, which the calls before have advanced.
chooseDiscardsSeeded_shared(aiHand6, seen, isDealer, sims, seed) ==
  tossLoop(aiHand6, minus(makeDeck, seen \o aiHand6), isDealer, sims, 1,
           [keep |-> SubSeq(aiHand6, 1, 4), toCrib |-> SubSeq(aiHand6, 5, 6)],
           NegInf, seed + 7 * Len(hist.runs))

\* chooseDiscardsAI(aiHand6, seen, isDealer, sims, rng) with rng in state
\* seed: the result and the state of the stream afterwards.
chooseDiscardsSeeded(aiHand6, seen, isDealer, sims, seed) ==
  tossLoop(aiHand6, minus(makeDeck, seen \o aiHand6), isDealer, sims, 1,
           [keep |-> SubSeq(aiHand6, 1, 4), toCrib |-> SubSeq(aiHand6, 5, 6)],
           NegInf, seed)

\* Two calls with the same arguments, each on a stream in state hist.seed;
\* hist.runs keeps what each returned.
InitDiscard ==
  /\ dealer \in Player
  /\ deck = <<>>
  /\ pHand = <<>>
  /\ \E i \in 1..NumDecks : aiHand = [k \in 1..6 |-> DeckN(i)[52 - 2 * (k - 1)]]
  /\ crib = <<>>
  /\ starter = NoCard
  /\ phase = "discard"
  /\ scores = [P |-> 0, AI |-> 0]
  /\ peg = Null
  /\ aiBusy = FALSE
  /\ gameOver = FALSE
  /\ winner = "none"
  /\ timers = <<>>
  /\ deals = 1
  /\ ev = [op |-> "init", who |-> "-", card |-> NoCard, pts |-> 0, mover |-> "-"]
  /\ \E seed \in 0..MaxSeed, sims \in 1..MaxSims :
       hist = [seed |-> seed, sims |-> sims, runs |-> <<>>]

DiscardRun ==
  /\ Len(hist.runs) < 2
  /\ LET r == chooseDiscardsSeeded(aiHand, <<>>, dealer = "AI", hist.sims, hist.seed)
     IN  hist' = [hist EXCEPT !.runs = Append(@, r)]
  /\ ev' = [op |-> "discardRun", who |-> "AI", card |-> NoCard, pts |-> 0, mover |-> "-"]
  /\ UNCHANGED <<dealer, deck, pHand, aiHand, crib, starter, phase, scores, peg,
                 aiBusy, gameOver, winner, timers, deals>>

SpecDiscard == InitDiscard /\ [][DiscardRun]_vars

----------------------------------------------------------------------------
(* One playout of aiPeggingMove as a function: the AI and the sampled       *)
(* opponent hold RolloutHand cards each, taken from a pool, on an empty     *)
(* stack or on a stack of one or three cards.                               *)

\* The count of a stack: the sum of cardValue15 over its cards.
StackTotal(st) == SumOver(DOMAIN st, [i \in DOMAIN st |-> cardValue15(rankOf(st[i]))])

RolloutPool ==
  {Card(10, 0), Card(11, 1), Card(13, 2), Card(12, 3),
   Card(1, 0), Card(5, 2), Card(6, 3), Card(9, 1)}

\* The stacks a playout starts from: empty, one card, or three cards.
RolloutStacks(S) ==
  {Sorted(T) : T \in {U \in SUBSET S : Cardinality(U) \in {0, 1, 3}}}

\* The sequences of n different cards of S: the first n cards of a shuffle.
RECURSIVE Draws(_, _)
Draws(S, n) ==
  IF n = 0 THEN {<<>>}
  ELSE UNION {{<<c>> \o d : d \in Draws(S \ {c}, n - 1)} : c \in S}

InitRollout ==
  /\ dealer = "P"
  /\ deck = <<>>
  /\ crib = <<>>
  /\ starter = NoCard
  /\ phase = "pegging"
  /\ scores = [P |-> 0, AI |-> 0]
  /\ aiBusy = FALSE
  /\ gameOver = FALSE
  /\ winner = "none"
  /\ timers = <<>>
  /\ deals = 1
  /\ ev = [op |-> "init", who |-> "-", card |-> NoCard, pts |-> 0, mover |-> "-"]
  /\ \E A \in SUBSET RolloutPool :
       /\ Cardinality(A) = RolloutHand
       /\ aiHand = Sorted(A)
       /\ \E st \in RolloutStacks(RolloutPool \ A) :
            /\ StackTotal(st) <= 30
            /\ Cardinality(RolloutPool \ (A \cup Range(st))) >= RolloutHand
            /\ pHand = SubSeq(Sorted(RolloutPool \ (A \cup Range(st))), 1, RolloutHand)
            /\ peg = [stack |-> st, total |-> StackTotal(st),
                      pHand |-> pHand, aiHand |-> aiHand,
                      seen |-> <<>>, starter |-> NoCard, next |-> "AI",
                      pPassed |-> FALSE, aiPassed |-> FALSE,
                      points |-> 0, thirtyOne |-> FALSE]
            /\ \E sample \in Draws(Range(maskedUnseen(peg)) \cap RolloutPool, Len(peg.pHand)) :
                 hist = [sample |-> sample, res |-> Null]

\* rollout(play) runs one playout for a legal card of the AI.
RolloutStep ==
  /\ hist.res = Null
  /\ \E play \in Range(legalPlays(peg.aiHand, peg.total)) :
       LET r == playout(peg, play, hist.sample)
       IN  /\ hist' = [hist EXCEPT !.res = r]
           /\ ev' = [op |-> "rollout", who |-> "AI", card |-> play, pts |-> r.aiPts, mover |-> "-"]
  /\ UNCHANGED <<dealer, deck, pHand, aiHand, crib, starter, phase, scores, peg,
                 aiBusy, gameOver, winner, timers, deals>>

SpecRollout == InitRollout /\ [][RolloutStep]_vars

----------------------------------------------------------------------------
(* Properties *)

StackValue(stack) ==
  SumOver(DOMAIN stack, [i \in DOMAIN stack |-> IF rankOf(stack[i]) > 10 THEN 10 ELSE rankOf(stack[i])])

\* A step in which playPegCard played a card (ev' names the card and the mover).
PlayStep == ev'.op = "play" /\ peg' # peg

\* C1: in every pegging state reached by legal plays, Go declarations and the
\* 31/Go resets, peg.total is the sum of min(rank, 10) over the cards of
\* peg.stack, and it lies between 0 and 31.
C1_TotalIsStackSum ==
  peg # Null => /\ peg.total = StackValue(peg.stack)
                /\ 0 <= peg.total
                /\ peg.total <= 31

\* A count of 30 made of three cards, reached by legal plays.
C1_Witness ==
  peg # Null /\ Len(peg.stack) >= 3 /\ peg.total = 30 /\ ev.op = "play"

\* addScore as the claim has it: nothing is added once the game is over.
addScoreStop(sc, who, delta) == IF sc.gameOver THEN sc ELSE addScore(sc, who, delta, FALSE)

\* The scores after the update that ends pegging, if the additions stopped at
\* the first one that reaches 120: the card's points when a card was played,
\* then pone hand, dealer hand, crib.
ShowScoresStopping ==
  LET s0 == IF PlayStep THEN addScoreStop(Sc, ev'.who, peg'.points) ELSE Sc
      pone == Other(dealer)
      s1 == addScoreStop(s0, pone, handPoints(IF pone = "P" THEN pHand ELSE aiHand, starter, FALSE))
      s2 == addScoreStop(s1, dealer, handPoints(IF dealer = "P" THEN pHand ELSE aiHand, starter, FALSE))
  IN  addScoreStop(s2, dealer, handPoints(crib, starter, TRUE)).scores

\* C4: once gameOver is set, neither player's score changes again: not in a
\* later step, and not by the remaining additions of the update that set it.
C4_NoScoreAfterGameOver ==
  /\ [][gameOver => scores' = scores]_vars
  /\ [][(phase = "pegging" /\ phase' = "show" /\ gameOver') => scores' = ShowScoresStopping]_vars

\* C5: each score stays within 0..120, no step lowers a score, and gameOver
\* is set exactly when some score is 120.
C5_ScoreClampedMonotone ==
  /\ [](\A w \in Player : scores[w] >= 0 /\ scores[w] <= 120)
  /\ [](gameOver <=> \E w \in Player : scores[w] = 120)
  /\ [][\A w \in Player : scores'[w] >= scores[w]]_vars

\* A score has reached 120 from below in a scoring step and the game is over.
C5_Witness ==
  gameOver /\ winner \in Player /\ scores[winner] = 120 /\ scores[Other(winner)] > 117

\* C6: when both have passed after a card of A and the Go point is given, it
\* goes to A, the player of the last card, and B is next.
C6_GoPointToLastMover ==
  (ev.op = "goAward" /\ ev.mover \in Player /\ ~peg.thirtyOne)
    => (ev.who = ev.mover /\ peg.next = Other(ev.mover))

\* C7: a play that makes the count 31 leaves the stack empty, the count 0 and
\* both pass flags clear, and credits the mover with 2 plus the pair and run
\* points of the card (through addScore, so up to 120), the other with nothing.
C7_ThirtyOneResets ==
  [][(PlayStep /\ peg'.thirtyOne) =>
       /\ peg'.stack = <<>> /\ peg'.total = 0
       /\ ~peg'.pPassed /\ ~peg'.aiPassed
       /\ peg.total + (IF rankOf(ev'.card) > 10 THEN 10 ELSE rankOf(ev'.card)) = 31
       /\ scores'[ev'.who] =
            Min(120, scores[ev'.who] + 2 + isPairRunPoints(peg.stack, ev'.card))
       /\ scores'[Other(ev'.who)] = scores[Other(ev'.who)]]_vars

\* A card has just made 31 with a pair: 4 points credited, stack cleared.
C7_Witness ==
  /\ ev.op = "play" /\ peg # Null /\ peg.thirtyOne /\ peg.stack = <<>>
  /\ peg.points = 4 /\ scores[ev.who] = 4

\* C8: no Go point is given while the last card played is the one that made
\* 31 (peg.thirtyOne is still set).
C8_NoGoPointAfterThirtyOne ==
  (ev.op = "goAward" /\ peg # Null) => ~peg.thirtyOne

\* C9: when the last card of the round is played onto a count that stays
\* below 31 and the mover's opponent had passed on that count, the scores
\* after the step are those of: the card's points, 1 for last card, then the
\* show (pone hand, dealer hand, crib).
C9_LastCardPoint ==
  [][(/\ PlayStep /\ phase = "pegging" /\ phase' = "show"
      /\ peg'.total > 0 /\ peg'.total < 31
      /\ (IF ev'.who = "P" THEN peg.aiPassed ELSE peg.pPassed))
     => LET withCard == addScore(Sc, ev'.who, peg'.points, FALSE)
            withLast == addScore(withCard, ev'.who, 1, FALSE)
            noPass == [peg' EXCEPT !.total = 0]
        IN  scores' = endPeggingAndScoreHands(noPass, Closure, withLast).scores]_vars

\* A step that is the direct call named op.
ApiStep(op) == ev.op \notin ApiOps /\ ev'.op = op

\* C2: playPegCard with a card that is not in the hand of the player who is
\* next, or that takes the count past 31, changes nothing.
C2_IllegalPlayRejected ==
  [][(ApiStep("apiPlay") /\ IllegalCard(ev'.card)) =>
       /\ peg'.stack = peg.stack /\ peg'.total = peg.total
       /\ peg'.pHand = peg.pHand /\ peg'.aiHand = peg.aiHand
       /\ peg'.next = peg.next
       /\ peg'.pPassed = peg.pPassed /\ peg'.aiPassed = peg.aiPassed
       /\ scores' = scores]_vars

PegHand(who) == IF who = "P" THEN peg.pHand ELSE peg.aiHand

\* C3: declareGo(who) while who has a legal play sets no pass flag, leaves
\* the turn, schedules no check and changes no score.
C3_InvalidGoRejected ==
  [][(ApiStep("apiGo") /\ Len(legalPlays(PegHand(ev'.who), peg.total)) > 0) =>
       (peg' = peg /\ timers' = timers /\ scores' = scores)]_vars

\* declareGo was called for the player who is next and has a legal card:
\* no flag is set and no check is pending.
C3_Witness ==
  /\ ev.op = "apiGo" /\ peg.next = ev.who
  /\ Len(legalPlays(PegHand(ev.who), peg.total)) > 0
  /\ ~peg.pPassed /\ ~peg.aiPassed /\ timers = <<>>

\* The number of cards of the rank of the last card that end seq.
TrailingBlock(seq) ==
  CHOOSE k \in 1..Len(seq) :
    /\ \A i \in (Len(seq) - k + 1)..Len(seq) : rankOf(seq[i]) = rankOf(seq[Len(seq)])
    /\ (k = Len(seq) \/ rankOf(seq[Len(seq) - k]) # rankOf(seq[Len(seq)]))

\* C10: for the stack of any reachable count and any legal next card, the
\* points of applyPlay are 2 if the new count is 15, 2 if it is 31, 0, 2, 6
\* or 12 for a trailing block of 1, 2, 3 or 4 equal ranks, and the run points.
C10_PegPoints ==
  peg # Null =>
    \A card \in Range(legalPlays(peg.pHand, peg.total)) \cup Range(legalPlays(peg.aiHand, peg.total)) :
      LET seq == peg.stack \o <<card>>
          count == StackValue(seq)
          block == TrailingBlock(seq)
      IN  applyPlay(peg, card, peg.next).points =
            (IF count = 15 THEN 2 ELSE 0) + (IF count = 31 THEN 2 ELSE 0)
            + (CASE block = 1 -> 0 [] block = 2 -> 2 [] block = 3 -> 6 [] block = 4 -> 12)
            + runPoints(seq, Min(7, Len(seq)))

\* The fourth five in a row has just been played: 12 points, count 20.
C10_Witness ==
  /\ ev.op = "play" /\ Len(peg.stack) = 4 /\ peg.total = 20
  /\ \A i \in 1..4 : rankOf(peg.stack[i]) = 5
  /\ peg.points = 12

\* C11: commitDiscardsSelected with a selection that is not exactly two cards
\* of the player's six-card hand leaves crib, player hand and phase unchanged.
C11_MalformedDiscardRejected ==
  [][ApiStep("apiCommit") => (crib' = crib /\ pHand' = pHand /\ phase' = phase)]_vars

\* Both pegging hands are empty and the round is still in pegging.
HandsEmptyInPegging ==
  phase = "pegging" /\ peg # Null /\ Len(peg.pHand) = 0 /\ Len(peg.aiHand) = 0

\* C12: once both pegging hands are empty the round reaches the show, also
\* when the last card made 31.
C12_PeggingEndsInShow == HandsEmptyInPegging ~> (phase = "show")

\* C13: the first turn is the non-dealer's; a card is played by the player
\* whose turn it is and passes the turn to the other; a player who also
\* played the card before plays again only after a Go of the other.
C13_TurnOrder ==
  [][/\ (ev'.op = "cut" => peg'.next = Other(dealer))
     /\ (PlayStep =>
           /\ ev'.who = peg.next
           /\ peg'.next = Other(ev'.who)
           /\ (hist.last = ev'.who => Other(ev'.who) \in Range(hist.gos)))]_vars

\* The player has played two cards in a row, the AI having said Go in between.
C13_Witness ==
  /\ ev.op = "play" /\ ev.who = "P" /\ ev.mover = "P"
  /\ peg # Null /\ Len(peg.stack) >= 2 /\ peg.next = "AI"

\* A step that starts a new round: redeal() has run, from the timeout after
\* the show or from the "New Deal" button.
NewRoundStep == phase # "deal" /\ phase' = "deal"

\* C14: a new round has the other dealer, a full new deck, empty hands and
\* crib and no starter, and the scores of the round before.
C14_NewRoundAlternatesDealer ==
  [][NewRoundStep =>
       /\ dealer' = Other(dealer)
       /\ Len(deck') = NumSuits * NumRanks /\ Range(deck') = Range(makeDeck)
       /\ pHand' = <<>> /\ aiHand' = <<>> /\ crib' = <<>> /\ starter' = NoCard
       /\ scores' = scores]_vars

\* C15: once the game is over no new round is dealt: the dealer does not
\* change and the phase does not return to deal.
C15_GameOverIsTerminal ==
  [][gameOver => (dealer' = dealer /\ phase' # "deal")]_vars

\* C16: handPoints gives the same value for the four cards in any order:
\* exchanging two neighbours, which generates every order, keeps the value.
C16_HandPointsOrderFree ==
  [][ev'.op = "score" => ev'.pts = ev.pts]_vars

\* A flush of four clubs with a starter of another suit, not in sorted order.
C16_Witness ==
  /\ ev.op = "score" /\ crib = <<>> /\ Len(pHand) = 4
  /\ pHand # Sorted(Range(pHand))
  /\ \A i \in 1..4 : suitOf(pHand[i]) = 0
  /\ suitOf(starter) = 1
  /\ ev.pts >= 4

\* The hand 5C 5D 5H 10S with starter JC, scored as a hand.
FivesAndTen ==
  /\ ev.op = "score" /\ crib = <<>>
  /\ Range(pHand) = {Card(5, 0), Card(5, 1), Card(5, 2), Card(10, 3)}
  /\ starter = Card(11, 0)

\* C17 as stated: that hand scores 29.
C17_FivesAndTenScore29 == FivesAndTen => ev.pts = 29

\* C17 amended: that hand scores 20, 14 for seven fifteens and 6 for the
\* three pairs of fives.
C17_FivesAndTenScore20 ==
  FivesAndTen => /\ ev.pts = 20
                 /\ count15(pHand \o <<starter>>) = 14
                 /\ countPairs(pHand \o <<starter>>) = 6

\* That hand with the ten first, scored at 20.
C17_Witness == FivesAndTen /\ pHand[1] = Card(10, 3) /\ ev.pts = 20

\* The five cards scored, and whether their ranks are 3, 4, 5, 5, 6.
AllFive == (IF crib = <<>> THEN pHand ELSE crib) \o <<starter>>

Ranks34556 ==
  /\ ev.op = "score"
  /\ rankCount(AllFive) =
       [r \in 1..NumRanks |-> IF r \in {3, 4, 6} THEN 1 ELSE IF r = 5 THEN 2 ELSE 0]

\* C18 as stated: countRuns is 6 and countPairs is 2.
C18_DoubleRunScores6 == Ranks34556 => (countRuns(AllFive) = 6 /\ countPairs(AllFive) = 2)

\* C18 amended: countRuns is 8, two runs of length 4, one for each 5, and
\* countPairs is 2.
C18_DoubleRunScores8 == Ranks34556 => (countRuns(AllFive) = 8 /\ countPairs(AllFive) = 2)

\* A 6 first, then 5, 4, 3 in the hand and another 5 as starter: runs 8.
C18_Witness ==
  /\ Ranks34556 /\ crib = <<>> /\ rankOf(pHand[1]) = 6 /\ rankOf(starter) = 5
  /\ countRuns(AllFive) = 8

\* C19: in every pegging state aiPeggingMove returns null exactly when no
\* card of the AI keeps the count at or below 31, and otherwise a card of
\* the AI's hand that does, whatever the simulated values.
C19_AiMoveIsLegal ==
  (phase = "pegging" /\ peg # Null) =>
    LET moves == aiPeggingMove(peg)
        canPlay == \E i \in DOMAIN peg.aiHand :
                     peg.total + cardValue15(rankOf(peg.aiHand[i])) <= 31
    IN  /\ (NoCard \in moves) <=> ~canPlay
        /\ \A c \in moves :
             c # NoCard => /\ c \in Range(peg.aiHand)
                           /\ peg.total + cardValue15(rankOf(c)) <= 31

\* The AI has just played a card while it also held a card that did not fit.
C19_Witness ==
  /\ ev.op = "play" /\ ev.who = "AI" /\ peg # Null /\ ~peg.thirtyOne
  /\ \E i \in DOMAIN peg.aiHand :
       peg.total - cardValue15(rankOf(ev.card)) + cardValue15(rankOf(peg.aiHand[i])) > 31

PlayedInRound ==
  (Range(pHand) \cup Range(aiHand)) \ (Range(peg.pHand) \cup Range(peg.aiHand))

\* What the AI has seen when it decides: its own two discards (the first two
\* cards of the crib), the starter, its hand and every card played so far.
AiHasSeen ==
  Range(SubSeq(crib, 1, 2)) \cup {starter} \cup Range(peg.aiHand) \cup PlayedInRound

\* The AI is about to choose among its legal cards.
AiDecides == AiTurnPending /\ Len(legalPlays(peg.aiHand, peg.total)) > 0

\* C21: at every pegging decision of the AI, no hand sampled for the
\* opponent holds a card the AI has seen: its crib discards, the starter, its
\* own hand, or a card played earlier in the round, on this stack or on one
\* since reset.
C21_SampleAvoidsSeen == AiDecides => oppSampleCards(peg) \cap AiHasSeen = {}

\* The same for the current stack only, which is what the code subtracts.
C21_SampleAvoidsCurrentStack ==
  AiDecides =>
    oppSampleCards(peg) \cap
      (Range(crib) \cup {starter} \cup Range(peg.aiHand) \cup Range(peg.stack)) = {}


\* C22: the value of a playout is the AI's card points minus the opponent's,
\* plus 1 when the AI played the card that made 31 or took the Go (it played
\* the last card before both were unable to play), minus 1 when the
\* simulated opponent did.
C22_PlayoutValue ==
  (ev.op = "rollout") =>
    ev.pts = hist.res.aiGain - hist.res.pGain
               + (IF hist.res.lastMover = "AI" THEN 1 ELSE 0 - 1)

\* What the playout adds beyond the card points: 1 when the AI's first card
\* makes 31, 1 for a Go after a card of the AI, nothing otherwise.
C22_PlayoutValueAsCoded ==
  (ev.op = "rollout") =>
    ev.pts = hist.res.aiGain - hist.res.pGain
               + (IF hist.res.lastMover = "AI"
                     /\ (hist.res.total # 31 \/ Len(hist.res.stack) = Len(peg.stack) + 1)
                    THEN 1 ELSE 0)


\* Every card the round holds: both hands, the crib, the starter once cut,
\* and the rest of the deck.
CardsOfRound ==
  pHand \o aiHand \o crib \o (IF starter = NoCard THEN <<>> ELSE <<starter>>) \o deck

\* seq holds no card twice.
NoRepeat(seq) == Cardinality(Range(seq)) = Len(seq)

\* C23: in every state of a round the hands, the crib, the starter and the
\* deck hold each of the 52 cards exactly once; the AI's and the player's
\* discards move two cards each from the hand to the crib; pegging starts
\* with four cards in each hand and in the crib; in pegging the cards of the
\* stack are cards of the four-card hands that are in no pegging hand, and a
\* play takes its card out of exactly one pegging hand.
C23_CardConservation ==
  /\ [](Len(CardsOfRound) = NumSuits * NumRanks /\ Range(CardsOfRound) = Range(makeDeck))
  /\ [][(ev'.op \in {"aiDiscard", "commit"}) =>
          LET hand == IF ev'.op = "commit" THEN pHand ELSE aiHand
              hand2 == IF ev'.op = "commit" THEN pHand' ELSE aiHand'
          IN  /\ Len(hand) = 6 /\ Len(hand2) = 4 /\ Len(crib') = Len(crib) + 2
              /\ Range(hand2) \subseteq Range(hand)
              /\ Range(crib') \ Range(crib) = Range(hand) \ Range(hand2)]_vars
  /\ []((phase = "pegging" /\ ev.op = "cut") =>
          /\ Len(pHand) = 4 /\ Len(aiHand) = 4 /\ Len(crib) = 4
          /\ peg.pHand = pHand /\ peg.aiHand = aiHand /\ peg.stack = <<>>)
  /\ []((phase = "pegging" /\ peg # Null) =>
          /\ Range(peg.pHand) \subseteq Range(pHand)
          /\ Range(peg.aiHand) \subseteq Range(aiHand)
          /\ NoRepeat(peg.pHand \o peg.aiHand \o peg.stack)
          /\ Range(peg.stack) \subseteq PlayedInRound)
  /\ [][PlayStep =>
          /\ ev'.card \in Range(peg.pHand) \cup Range(peg.aiHand)
          /\ ev'.card \notin Range(peg'.pHand) \cup Range(peg'.aiHand)
          /\ Len(peg'.pHand) + Len(peg'.aiHand) = Len(peg.pHand) + Len(peg.aiHand) - 1]_vars

\* A round at the show after a Go or a 31 emptied a stack: all eight cards
\* have left the pegging hands and the stack holds fewer than eight.
C23_Witness ==
  /\ phase = "show" /\ peg # Null /\ Len(crib) = 4 /\ starter # NoCard
  /\ Len(peg.pHand) = 0 /\ Len(peg.aiHand) = 0
  /\ Cardinality(PlayedInRound) = 8 /\ Len(peg.stack) \in 1..7


\* Both players have said Go on the current stack.
BothPassed == phase = "pegging" /\ peg # Null /\ peg.pPassed /\ peg.aiPassed

\* A step in which the delayed check gives the Go point.
GoAwardStep == ev'.op = "goAward"

\* C24: whatever the order of Go declarations, plays and delayed checks, two
\* passes in a row on one stack give the Go point exactly once and empty the
\* stack once.  Not zero times: a pass flag is set only by a Go said since
\* the last card, while both are set a check is pending, and only the step
\* that gives the point clears them.  Not twice: the point is given only
\* while both are set, it adds exactly 1 to one score and nothing to the
\* other, and it leaves the stack empty, the count 0 and both flags clear, so
\* the checks still pending find nothing to give.
C24_GoPointExactlyOnce ==
  /\ []((phase = "pegging" /\ peg # Null) =>
          /\ (peg.pPassed => "P" \in Range(hist.gos))
          /\ (peg.aiPassed => "AI" \in Range(hist.gos)))
  /\ [](BothPassed => \E i \in DOMAIN timers : timers[i].kind = "goCheck")
  /\ [][BothPassed => (GoAwardStep \/ (peg'.pPassed /\ peg'.aiPassed /\ peg'.stack = peg.stack))]_vars
  /\ [][GoAwardStep =>
          /\ BothPassed
          /\ peg'.stack = <<>> /\ peg'.total = 0 /\ ~peg'.pPassed /\ ~peg'.aiPassed
          /\ Len(timers') <= Len(timers)
          /\ scores'[ev'.who] = scores[ev'.who] + 1
          /\ scores'[Other(ev'.who)] = scores[Other(ev'.who)]]_vars
  /\ [][(scores' # scores /\ ~PlayStep /\ ev'.op \notin {"cut", "endPeg"}) => GoAwardStep]_vars

\* The second of two checks has run after the first gave the point: it gave
\* nothing, and the scores hold that single point.
C24_Witness ==
  /\ ev.op = "goCheck" /\ phase = "pegging" /\ peg # Null
  /\ peg.stack = <<>> /\ ~peg.pPassed /\ ~peg.aiPassed
  /\ hist = NoHist /\ timers = <<>>
  /\ scores["P"] + scores["AI"] = 1


\* The player who holds card in pegging.
Holder(card) == IF card \in Range(peg.pHand) THEN "P" ELSE "AI"

\* C25: declareGo and playPegCard act for the player whose turn it is only.
\* A Go declared for the player who is not next sets no pass flag and leaves
\* the turn; a card that is played leaves the hand of the player who holds
\* it, and its points go to that player and to nobody else.
C25_OnlyForPlayerToMove ==
  /\ [][(ApiStep("apiGo") /\ ev'.who # peg.next) =>
          /\ peg'.pPassed = peg.pPassed /\ peg'.aiPassed = peg.aiPassed
          /\ peg'.next = peg.next]_vars
  /\ [][(/\ ev'.op \in {"play", "apiPlay"} /\ peg' # peg
         /\ ev'.card \in Range(peg.pHand) \cup Range(peg.aiHand)
         /\ phase' = "pegging") =>
          LET h == Holder(ev'.card)
          IN  /\ ev'.card \notin Range(peg'.pHand) \cup Range(peg'.aiHand)
              /\ scores'[h] = Min(WinScore, scores[h] + peg'.points)
              /\ scores'[Other(h)] = scores[Other(h)]]_vars

\* The two parts of C25, each on its own.
C25_GoOutOfTurn ==
  [][(ApiStep("apiGo") /\ ev'.who # peg.next) =>
       /\ peg'.pPassed = peg.pPassed /\ peg'.aiPassed = peg.aiPassed
       /\ peg'.next = peg.next]_vars

C25_ButtonsActForHolder ==
  [][(/\ ev'.op = "play" /\ peg' # peg /\ phase' = "pegging") =>
       LET h == Holder(ev'.card)
       IN  /\ ev'.card \in Range(IF h = "P" THEN peg.pHand ELSE peg.aiHand)
           /\ h = peg.next
           /\ ev'.card \notin Range(peg'.pHand) \cup Range(peg'.aiHand)
           /\ scores'[h] = Min(WinScore, scores[h] + peg'.points)
           /\ scores'[Other(h)] = scores[Other(h)]]_vars


\* The winner of the update that ends pegging when the additions are taken in
\* scoring order and stop at the first score to reach 120: the card's points
\* when a card was played, then pone hand, dealer hand, crib.
FirstTo120AtShow ==
  LET s0 == IF PlayStep THEN addScoreStop(Sc, ev'.who, peg'.points) ELSE Sc
      pone == Other(dealer)
      s1 == addScoreStop(s0, pone, handPoints(IF pone = "P" THEN pHand ELSE aiHand, starter, FALSE))
      s2 == addScoreStop(s1, dealer, handPoints(IF dealer = "P" THEN pHand ELSE aiHand, starter, FALSE))
  IN  addScoreStop(s2, dealer, handPoints(crib, starter, TRUE)).winner

\* C26, first part: the winner, once set, never changes.
C26_WinnerNeverChanges == [][winner # "none" => winner' = winner]_vars

\* C26, second part: the update that goes to the show and sets the winner
\* names the player whose score reached 120 first in scoring order.
C26_WinnerIsFirstAtShow ==
  [][(phase = "pegging" /\ phase' = "show" /\ winner = "none" /\ winner' # "none")
       => winner' = FirstTo120AtShow]_vars

\* C26: the winner is set once, to the first player to reach 120 in scoring
\* order, also when both reach 120 in one update.
C26_WinnerIsFirstTo120 ==
  [][/\ (winner # "none" => winner' = winner)
     /\ ((phase = "pegging" /\ phase' = "show" /\ winner = "none" /\ winner' # "none")
           => winner' = FirstTo120AtShow)]_vars

=============================================================================
